---- MODULE Spec2Model ----
(***************************************************************************)
(* A model of package ctable (src/ctable.go): Column, Table, AddRow with   *)
(* multiline expansion, and Display.                                       *)
(*                                                                         *)
(* A Go string is modelled as the sequence of its bytes (numbers 0..255),  *)
(* so that the rune count (utf8.RuneCountInString), the byte slice s[:n]   *)
(* and fmt's padding are computed as the code computes them.               *)
(***************************************************************************)
EXTENDS Integers, Sequences, FiniteSets, TLC

VARIABLES
    Columns,      \* Table.Columns: sequence of Column records
    ColumnCount,  \* Table.ColumnCount
    Rows,         \* Table.Rows: sequence of physical rows (sequences of strings)
    RowCount,     \* Table.RowCount
    call,         \* the operation executed last and its arguments
    outcome,      \* how it ended: "ok", "fatal" (log.Fatal) or "panic"
    printed       \* the lines it wrote to stdout

vars == <<Columns, ColumnCount, Rows, RowCount, call, outcome, printed>>

\* The table proper: what an operation may or may not change.
table == <<Columns, ColumnCount, Rows, RowCount>>

----------------------------------------------------------------------------
(* Bounds of the exploration *)

\* The row store is explored up to this many physical rows.
MaxRows == 2

\* A multiline cell ([]string) holds at most this many strings.
MaxMulti == 2

----------------------------------------------------------------------------
(* Strings *)

EmptyStr == << >>

\* The bytes of "...", " " and "=".
Dots == <<46, 46, 46>>

Space == <<32>>

Equals == <<61>>

\* "é" and "éa" (é is the two bytes C3 A9): the strings offered to AddRow,
\* one of 1 rune in 2 bytes, one of 2 runes in 3 bytes.
StringValues == { <<195, 169>>, <<195, 169, 97>> }

\* "n" and "én": the column names offered to NewColumn.
NameValues == { <<110>>, <<195, 169, 110>> }

\* The truncateAt values offered to NewColumn: no truncation, or at 1 rune.
TruncateAtValues == { 0, 1 }

Max(a, b) == IF a > b THEN a ELSE b

\* Whether b is a UTF-8 continuation byte allowed after the lead byte
\* `lead` at position `k` (2 = directly after the lead).
AcceptCont(lead, k, b) ==
    IF k > 2 THEN b >= 128 /\ b <= 191
    ELSE IF lead = 224 THEN b >= 160 /\ b <= 191
    ELSE IF lead = 237 THEN b >= 128 /\ b <= 159
    ELSE IF lead = 240 THEN b >= 144 /\ b <= 191
    ELSE IF lead = 244 THEN b >= 128 /\ b <= 143
    ELSE b >= 128 /\ b <= 191

\* The number of bytes of the encoding that lead byte b starts (1 for ASCII
\* and for a byte that starts no valid encoding).
EncodingSize(b) ==
    IF b >= 194 /\ b <= 223 THEN 2
    ELSE IF b >= 224 /\ b <= 239 THEN 3
    ELSE IF b >= 240 /\ b <= 244 THEN 4
    ELSE 1

\* The bytes the rune starting at s[i] takes: its encoding's size when the
\* encoding is complete and valid, else 1 (an invalid byte is one rune).
RuneWidthAt(s, i) ==
    LET size == EncodingSize(s[i])
    IN  IF /\ i + size - 1 <= Len(s)
           /\ \A k \in 2..size : AcceptCont(s[i], k, s[i + k - 1])
        THEN size
        ELSE 1

RECURSIVE RuneCountFrom(_, _)
RuneCountFrom(s, i) ==
    IF i > Len(s) THEN 0
    ELSE 1 + RuneCountFrom(s, i + RuneWidthAt(s, i))

\* utf8.RuneCountInString
RuneCountInString(s) == RuneCountFrom(s, 1)

\* strings.Repeat
RECURSIVE Repeat(_, _)
Repeat(s, n) == IF n <= 0 THEN EmptyStr ELSE s \o Repeat(s, n - 1)

\* The Go slice expression s[:n] on a string: its first n bytes.
SliceTo(s, n) == SubSeq(s, 1, n)

----------------------------------------------------------------------------
(* Column and Table *)

Column(name, truncateAt, justification, truncationRequired, maxLength) ==
    [ Name               |-> name,
      truncateAt         |-> truncateAt,
      Justification      |-> justification,
      truncationRequired |-> truncationRequired,
      maxLength          |-> maxLength ]

NewColumn(name, truncateAt) ==
    Column(name, truncateAt, "left",
           truncateAt > 0 /\ RuneCountInString(name) > truncateAt,
           RuneCountInString(name))

\* The caller's assignment columns[i].Justification = j, made on a column
\* before it is handed to NewTable.
WithJustification(col, j) == [col EXCEPT !.Justification = j]

JustificationValues == { "left", "right" }

\* The columns a table is built from.
ColumnValues ==
    { WithJustification(NewColumn(n, t), j) :
        n \in NameValues, t \in TruncateAtValues, j \in JustificationValues }

\* The second column of the explored tables is one of these two: "n",
\* truncated at 1 rune and right-justified, or "én", never truncated.
SecondColumnValues ==
    { WithJustification(NewColumn(<<110>>, 1), "right"),
      NewColumn(<<195, 169, 110>>, 0) }

\* The column lists handed to NewTable: two columns, the first any column.
ColumnLists == { <<c1, c2>> : c1 \in ColumnValues, c2 \in SecondColumnValues }

----------------------------------------------------------------------------
(* The arguments of AddRow: each an interface{} value *)

StringCell(s) == [ kind |-> "string", str |-> s, list |-> << >> ]

SliceCell(l) == [ kind |-> "[]string", str |-> EmptyStr, list |-> l ]

\* A value that is neither a string nor a []string (an int, say).
OtherCell == [ kind |-> "other", str |-> EmptyStr, list |-> << >> ]

\* All sequences over S of length 0..n.
SeqsUpTo(S, n) == UNION { [1..k -> S] : k \in 0..n }

Cells ==
    { StringCell(s) : s \in StringValues }
        \cup { SliceCell(l) : l \in SeqsUpTo(StringValues, MaxMulti) }
        \cup { OtherCell }

\* The argument lists offered to AddRow on a table of n columns: every list
\* of n cells, and lists of one cell fewer and one cell more.
FieldLists(n) ==
    [1..n -> Cells]
        \cup { [i \in 1..(n - 1) |-> c] : c \in Cells }
        \cup { [i \in 1..(n + 1) |-> c] : c \in Cells }

----------------------------------------------------------------------------
(* AddRow *)

\* A count check that only rejects rows that are too short.
CountMismatchTooFewOnly(fields, columnCount) == Len(fields) < columnCount

\* len(fields) != ct.ColumnCount
CountMismatch(fields, columnCount) == Len(fields) # columnCount

\* A width update that takes the last value's length, not the maximum.
WidthUpdateLastValue(col, v) ==
    LET maxLength == RuneCountInString(v)
    IN  [col EXCEPT
            !.maxLength = maxLength,
            !.truncationRequired =
                IF col.truncateAt > 0 /\ maxLength > col.truncateAt
                THEN TRUE ELSE @]

\* A width update that recomputes the truncation flag from the value at hand.
WidthUpdateFlagFromValue(col, v) ==
    [col EXCEPT
        !.maxLength = Max(@, RuneCountInString(v)),
        !.truncationRequired =
            col.truncateAt > 0 /\ RuneCountInString(v) > col.truncateAt]

\* The update of one column by one string value: maxLength, then
\* truncationRequired.
WidthUpdate(col, v) ==
    LET maxLength ==
            IF col.maxLength < RuneCountInString(v)
            THEN RuneCountInString(v) ELSE col.maxLength
    IN  [col EXCEPT
            !.maxLength = maxLength,
            !.truncationRequired =
                IF col.truncateAt > 0 /\ maxLength > col.truncateAt
                THEN TRUE ELSE @]

\* for _, str := range v: the update by each string of a []string in turn.
RECURSIVE WidthUpdateAll(_, _, _)
WidthUpdateAll(col, list, k) ==
    IF k > Len(list) THEN col
    ELSE WidthUpdateAll(WidthUpdate(col, list[k]), list, k + 1)

\* The switch on one field's type: the column after it.
FieldUpdate(col, cell) ==
    IF cell.kind = "string" THEN WidthUpdate(col, cell.str)
    ELSE IF cell.kind = "[]string" THEN WidthUpdateAll(col, cell.list, 1)
    ELSE col

\* The index of the first field that is neither string nor []string, 0 when
\* there is none: where the loop over the fields ends in log.Fatal.
FirstInvalid(fields) ==
    LET bad == { i \in 1..Len(fields) : fields[i].kind = "other" }
    IN  IF bad = {} THEN 0 ELSE CHOOSE i \in bad : \A j \in bad : i <= j

\* The columns when the loop over the fields has ended: every field before
\* the first invalid one has updated its column.
ColumnsAfterScan(cols, fields) ==
    LET stop == FirstInvalid(fields)
    IN  [ i \in 1..Len(cols) |->
            IF stop = 0 \/ i < stop THEN FieldUpdate(cols[i], fields[i])
            ELSE cols[i] ]

\* rowState.mlFieldIndexes
MlFieldIndexes(fields) == { i \in 1..Len(fields) : fields[i].kind = "[]string" }

\* rowState.hasMultilineValue
HasMultilineValue(fields) == MlFieldIndexes(fields) # {}

SetMax(S) == IF S = {} THEN 0 ELSE CHOOSE m \in S : \A k \in S : k <= m

LongestMulti(fields) ==
    SetMax({ Len(fields[fi].list) : fi \in MlFieldIndexes(fields) })

\* An expansion that repeats the single values on every physical row.
TempFieldsRepeatSingle(fields, x) ==
    [ fi \in 1..Len(fields) |->
        IF fi \in MlFieldIndexes(fields) THEN fields[fi].list[x + 1]
        ELSE fields[fi].str ]

\* tempFields of iteration x (0-based) of the 'down' loop.
TempFields(fields, x) ==
    [ fi \in 1..Len(fields) |->
        IF fi \in MlFieldIndexes(fields) THEN fields[fi].list[x + 1]
        ELSE IF x = 0 THEN fields[fi].str
        ELSE EmptyStr ]

\* The iterations x of the 'down' loop in which an index expression
\* fields[fi].([]string)[x] is out of range.
OutOfRangeAt(fields) ==
    { x \in 0..(LongestMulti(fields) - 1) :
        \E fi \in MlFieldIndexes(fields) : x >= Len(fields[fi].list) }

\* The number of iterations of the 'down' loop that complete: all of them,
\* or those before the first index out of range (a run-time panic).
CompletedIterations(fields) ==
    IF OutOfRangeAt(fields) = {} THEN LongestMulti(fields)
    ELSE CHOOSE x \in OutOfRangeAt(fields) : \A y \in OutOfRangeAt(fields) : x <= y

\* The physical rows AddRow appends.
AppendedRows(fields) ==
    IF ~HasMultilineValue(fields)
    THEN << [ fi \in 1..Len(fields) |-> fields[fi].str ] >>
    ELSE [ k \in 1..CompletedIterations(fields) |-> TempFields(fields, k - 1) ]

\* How AddRow ends.
AddRowOutcome(fields, columnCount) ==
    IF CountMismatch(fields, columnCount) THEN "fatal"
    ELSE IF FirstInvalid(fields) # 0 THEN "fatal"
    ELSE IF HasMultilineValue(fields) /\ OutOfRangeAt(fields) # {} THEN "panic"
    ELSE "ok"

\* The physical rows a call needs room for in the explored row store.
RowsNeeded(fields, columnCount) ==
    IF CountMismatch(fields, columnCount) \/ FirstInvalid(fields) # 0 THEN 0
    ELSE IF HasMultilineValue(fields) THEN LongestMulti(fields)
    ELSE 1

AddRow(fields) ==
    /\ outcome = "ok"
    /\ Len(Rows) + RowsNeeded(fields, ColumnCount) <= MaxRows
    /\ call' = [ op |-> "AddRow", fields |-> fields, showHeaders |-> FALSE ]
    /\ outcome' = AddRowOutcome(fields, ColumnCount)
    /\ printed' = << >>
    /\ IF CountMismatch(fields, ColumnCount)
       THEN UNCHANGED <<Columns, Rows>>
       ELSE /\ Columns' = ColumnsAfterScan(Columns, fields)
            /\ Rows' = IF FirstInvalid(fields) # 0 THEN Rows
                       ELSE Rows \o AppendedRows(fields)
    /\ UNCHANGED <<ColumnCount, RowCount>>

----------------------------------------------------------------------------
(* Display *)

\* Padding that measures the value in bytes, not in runes.
SprintfByteWidth(leftJustified, width, s) ==
    LET pad == Repeat(Space, width - Len(s))
    IN  IF leftJustified THEN s \o pad ELSE pad \o s

\* fmt.Sprintf("%-<width>v", s) when leftJustified, fmt.Sprintf("%<width>v", s)
\* otherwise: s padded with spaces to `width` runes, never cut. (A width of
\* 0 makes the verb "%-0v" or "%0v": a flag and no width, which pads
\* nothing, as a width of 0 would.)
Sprintf(leftJustified, width, s) ==
    LET pad == Repeat(Space, width - RuneCountInString(s))
    IN  IF leftJustified THEN s \o pad ELSE pad \o s

\* The width in the format string: truncateAt+3 or maxLength.
FormatWidth(col) ==
    IF col.truncationRequired THEN col.truncateAt + 3 ELSE col.maxLength

\* "truncate field value?": the value, or its first truncateAt bytes and "...".
TruncatedFieldData(col, fieldData) ==
    IF col.truncationRequired /\ RuneCountInString(fieldData) > col.truncateAt
    THEN SliceTo(fieldData, col.truncateAt) \o Dots
    ELSE fieldData

\* One field of a data line, truncated and padded.
DataField(col, fieldData) ==
    Sprintf(col.Justification = "left", FormatWidth(col),
            TruncatedFieldData(col, fieldData))

\* "truncate column name also?": the name as the header shows it.
TruncatedName(col) ==
    IF col.truncationRequired /\ RuneCountInString(col.Name) > col.truncateAt
    THEN SliceTo(col.Name, col.truncateAt) \o Dots
    ELSE col.Name

\* One field of the header line: always left-justified.
HeaderField(col) == Sprintf(TRUE, FormatWidth(col), TruncatedName(col))

\* One field of the separator line.
SeparatorField(col) == Repeat(Equals, FormatWidth(col))

\* The fields joined, a space before all but the first.
RECURSIVE JoinFrom(_, _)
JoinFrom(fs, i) ==
    IF i > Len(fs) THEN EmptyStr
    ELSE (IF i = 1 THEN fs[i] ELSE Space \o fs[i]) \o JoinFrom(fs, i + 1)

\* rowStr of one physical row.
RowStr(cols, row) ==
    JoinFrom([ i \in 1..Len(cols) |-> DataField(cols[i], row[i]) ], 1)

ProcessedRows(cols, rows) == [ r \in 1..Len(rows) |-> RowStr(cols, rows[r]) ]

HeaderStr(cols) == JoinFrom([ i \in 1..Len(cols) |-> HeaderField(cols[i]) ], 1)

HeaderSeparator(cols) ==
    JoinFrom([ i \in 1..Len(cols) |-> SeparatorField(cols[i]) ], 1)

\* The lines Display prints, in order.
DisplayLines(cols, rows, showHeaders) ==
    (IF showHeaders THEN << HeaderStr(cols), HeaderSeparator(cols) >> ELSE << >>)
        \o ProcessedRows(cols, rows)

\* A Display that stores what it found about the header back into the
\* columns: the name's width as maxLength.
DisplayStoringWidths(showHeaders) ==
    /\ outcome = "ok"
    /\ call' = [ op |-> "Display", fields |-> << >>, showHeaders |-> showHeaders ]
    /\ outcome' = "ok"
    /\ printed' = DisplayLines(Columns, Rows, showHeaders)
    /\ Columns' = [ i \in 1..Len(Columns) |->
                      [ Columns[i] EXCEPT
                          !.maxLength = IF showHeaders
                                        THEN RuneCountInString(Columns[i].Name)
                                        ELSE @ ] ]
    /\ UNCHANGED <<ColumnCount, Rows, RowCount>>

Display(showHeaders) ==
    /\ outcome = "ok"
    /\ call' = [ op |-> "Display", fields |-> << >>, showHeaders |-> showHeaders ]
    /\ outcome' = "ok"
    /\ printed' = DisplayLines(Columns, Rows, showHeaders)
    /\ UNCHANGED <<Columns, ColumnCount, Rows, RowCount>>

----------------------------------------------------------------------------
(* The program *)

\* NewTable(columns)
NewTable(columns) ==
    /\ Columns = columns
    /\ ColumnCount = Len(columns)
    /\ Rows = << >>
    /\ RowCount = 0

Init ==
    /\ \E columns \in ColumnLists : NewTable(columns)
    /\ call = [ op |-> "NewTable", fields |-> << >>, showHeaders |-> FALSE ]
    /\ outcome = "ok"
    /\ printed = << >>

Next ==
    \/ \E fields \in FieldLists(ColumnCount) : AddRow(fields)
    \/ \E showHeaders \in BOOLEAN : Display(showHeaders)

Spec == Init /\ [][Next]_vars

----------------------------------------------------------------------------
(* Vocabulary of the properties *)

\* A step that is a call of AddRow with the arguments call'.fields.
AddRowStep == outcome = "ok" /\ call'.op = "AddRow"

\* A step that is a call of Display with the argument call'.showHeaders.
DisplayStep == outcome = "ok" /\ call'.op = "Display"

\* The arguments are as many as the columns, each a string or a []string.
WellFormed(fields) ==
    /\ Len(fields) = ColumnCount
    /\ \A i \in 1..Len(fields) : fields[i].kind \in { "string", "[]string" }

\* The multiline cells of the arguments and the longest one's length N.
Multiline(fields) == { i \in 1..Len(fields) : fields[i].kind = "[]string" }

MaxSequenceLength(fields) ==
    LET lens == { Len(fields[i].list) : i \in Multiline(fields) }
    IN  IF lens = {} THEN 0 ELSE CHOOSE n \in lens : \A m \in lens : m <= n

\* The rows stored before the step are the first rows stored after it.
EarlierRowsKept == /\ Len(Rows') >= Len(Rows)
                   /\ SubSeq(Rows', 1, Len(Rows)) = Rows

\* Column i's maxObservedWidth and truncationActive are not changed.
ColumnStateKept ==
    /\ Len(Columns') = Len(Columns)
    /\ \A i \in 1..Len(Columns) :
          /\ Columns'[i].maxLength = Columns[i].maxLength
          /\ Columns'[i].truncationRequired = Columns[i].truncationRequired

\* The first n codepoints of s.
RECURSIVE FirstRunesFrom(_, _, _)
FirstRunesFrom(s, i, n) ==
    IF n <= 0 \/ i > Len(s) THEN EmptyStr
    ELSE SubSeq(s, i, i + RuneWidthAt(s, i) - 1)
            \o FirstRunesFrom(s, i + RuneWidthAt(s, i), n - 1)

FirstRunes(s, n) == FirstRunesFrom(s, 1, n)

\* The field display width of the specification.
FieldDisplayWidth(col) ==
    IF col.truncationRequired THEN col.truncateAt + 3 ELSE col.maxLength

RECURSIVE SumWidths(_, _)
SumWidths(cols, i) ==
    IF i > Len(cols) THEN 0 ELSE FieldDisplayWidth(cols[i]) + SumWidths(cols, i + 1)

\* The width of a whole line: the fields and one space between neighbours.
LineWidth(cols) == SumWidths(cols, 1) + (IF Len(cols) > 0 THEN Len(cols) - 1 ELSE 0)

\* The data lines among the lines a Display printed.
DataLines(lines, showHeaders) ==
    IF showHeaders THEN SubSeq(lines, 3, Len(lines)) ELSE lines

----------------------------------------------------------------------------
(* C1..C5: AddRow *)

\* C1: AddRow with more or fewer cells than columns ends in the fatal error,
\* with the row store and every column exactly as before the call.
C1_CountMismatchFatalNothingChanged ==
    [][ (AddRowStep /\ Len(call'.fields) # ColumnCount)
            => /\ outcome' = "fatal"
               /\ Rows' = Rows
               /\ Columns' = Columns ]_vars

\* A call with one cell too many, on a table that already holds a row, has
\* ended in the fatal error.
C1_Witness ==
    /\ call.op = "AddRow"
    /\ Len(call.fields) > ColumnCount
    /\ outcome = "fatal"
    /\ Len(Rows) >= 1

\* C2: a well-formed AddRow appends exactly one physical row when no cell is
\* multiline, and exactly N rows (N the longest multiline cell's length,
\* whatever the other multiline cells' lengths; none when N = 0) otherwise;
\* the rows stored before are unchanged.
C2_RowCountAsClaimed ==
    [][ (AddRowStep /\ WellFormed(call'.fields))
            => /\ EarlierRowsKept
               /\ Len(Rows') = Len(Rows)
                    + (IF Multiline(call'.fields) = {} THEN 1
                       ELSE MaxSequenceLength(call'.fields)) ]_vars

\* C3: with multiline cells of different lengths AddRow completes normally
\* and a multiline cell shorter than N shows the empty string on the
\* physical rows at and after its length.
C3_ShortCellsPaddedAsClaimed ==
    [][ (/\ AddRowStep
         /\ WellFormed(call'.fields)
         /\ \E i, j \in Multiline(call'.fields) :
               Len(call'.fields[i].list) # Len(call'.fields[j].list))
            => LET fields == call'.fields
                   N == MaxSequenceLength(fields)
               IN  /\ outcome' = "ok"
                   /\ Len(Rows') = Len(Rows) + N
                   /\ \A i \in Multiline(fields) :
                        \A k \in Len(fields[i].list)..(N - 1) :
                            Rows'[Len(Rows) + k + 1][i] = EmptyStr ]_vars

\* C4: when all multiline cells have the same length N >= 1, the N appended
\* rows hold, on row k, each multiline cell's k-th element, and each single
\* value on row 0 and the empty string on the rows after; each appended row
\* has one entry per column.
C4_EqualLengthExpansion ==
    [][ (/\ AddRowStep
         /\ WellFormed(call'.fields)
         /\ Multiline(call'.fields) # {}
         /\ MaxSequenceLength(call'.fields) >= 1
         /\ \A i \in Multiline(call'.fields) :
               Len(call'.fields[i].list) = MaxSequenceLength(call'.fields))
            => LET fields == call'.fields
                   N == MaxSequenceLength(fields)
               IN  /\ outcome' = "ok"
                   /\ EarlierRowsKept
                   /\ Len(Rows') = Len(Rows) + N
                   /\ \A k \in 0..(N - 1) :
                        LET row == Rows'[Len(Rows) + k + 1]
                        IN  /\ Len(row) = ColumnCount
                            /\ \A i \in 1..ColumnCount :
                                 row[i] =
                                    IF i \in Multiline(fields)
                                    THEN fields[i].list[k + 1]
                                    ELSE IF k = 0 THEN fields[i].str
                                    ELSE EmptyStr ]_vars

\* A call with a single value and a two-element multiline cell has appended
\* its two physical rows.
C4_Witness ==
    /\ call.op = "AddRow"
    /\ outcome = "ok"
    /\ Len(call.fields) = ColumnCount
    /\ \E i, j \in 1..ColumnCount :
          /\ call.fields[i].kind = "string"
          /\ call.fields[j].kind = "[]string"
          /\ Len(call.fields[j].list) = 2
    /\ Len(Rows) = 2

\* C5: AddRow with a cell that is neither a string nor a sequence of strings
\* ends in the fatal error with no row appended and no column's
\* maxObservedWidth or truncationActive changed, the columns before the
\* invalid cell included.
C5_InvalidCellNothingChanged ==
    [][ (/\ AddRowStep
         /\ Len(call'.fields) = ColumnCount
         /\ \E i \in 1..ColumnCount : call'.fields[i].kind = "other")
            => /\ outcome' = "fatal"
               /\ Rows' = Rows
               /\ ColumnStateKept ]_vars

----------------------------------------------------------------------------
(* C6..C10: Display and the column state *)

\* C6: in every render, for every column with truncationActive, a stored
\* value longer than the threshold in codepoints is displayed as its first
\* truncationThreshold codepoints followed by "...", values with multi-byte
\* characters included, and so is the column name in the header; values of
\* at most truncationThreshold codepoints are displayed unclipped.
C6_ClipsToCodepointsAsClaimed ==
    call.op = "Display" =>
        \A i \in 1..Len(Columns) :
            LET col == Columns[i]
                Shown(v) == IF RuneCountInString(v) > col.truncateAt
                            THEN FirstRunes(v, col.truncateAt) \o Dots
                            ELSE v
            IN  col.truncationRequired =>
                    /\ \A r \in 1..Len(Rows) :
                          TruncatedFieldData(col, Rows[r][i]) = Shown(Rows[r][i])
                    /\ call.showHeaders => TruncatedName(col) = Shown(col.Name)

C8_WidthNeverDecreases ==
    [][ AddRowStep
            => /\ Len(Columns') = Len(Columns)
               /\ \A i \in 1..Len(Columns) :
                     FieldDisplayWidth(Columns'[i])
                        >= FieldDisplayWidth(Columns[i]) ]_vars

\* An AddRow call has switched a column, untruncated at construction, to
\* truncated display, after an earlier call had widened another column.
C8_Witness ==
    /\ call.op = "AddRow"
    /\ outcome = "ok"
    /\ Len(Rows) = 2
    /\ \E i \in 1..Len(Columns) :
          /\ Columns[i].truncationRequired
          /\ RuneCountInString(Columns[i].Name) <= Columns[i].truncateAt
          /\ RuneCountInString(Rows[1][i]) <= Columns[i].truncateAt
          /\ RuneCountInString(Rows[2][i]) > Columns[i].truncateAt

\* C9: once a column's truncationActive is true it stays true across every
\* later AddRow and every render.
C9_TruncationStaysActive ==
    [][ /\ Len(Columns') = Len(Columns)
        /\ \A i \in 1..Len(Columns) :
              Columns[i].truncationRequired => Columns'[i].truncationRequired ]_vars

\* A column whose truncation an earlier value had activated has taken a
\* value within the threshold, and is still truncated.
C9_Witness ==
    /\ call.op = "AddRow"
    /\ outcome = "ok"
    /\ Len(Rows) = 2
    /\ \E i \in 1..Len(Columns) :
          /\ Columns[i].truncationRequired
          /\ RuneCountInString(Columns[i].Name) <= Columns[i].truncateAt
          /\ RuneCountInString(Rows[1][i]) > Columns[i].truncateAt
          /\ call.fields[i].kind = "string"
          /\ RuneCountInString(call.fields[i].str) <= Columns[i].truncateAt

----------------------------------------------------------------------------
(* C11..C12: the column state and the table's counters *)

\* The codepoint lengths of the string values the arguments supply for
\* column i: the single string's, or each element's of a multiline cell.
SuppliedLengths(fields, i) ==
    IF fields[i].kind = "string" THEN { RuneCountInString(fields[i].str) }
    ELSE { RuneCountInString(fields[i].list[k]) : k \in 1..Len(fields[i].list) }

\* The largest of n and the numbers of S.
MaxWith(n, S) == CHOOSE m \in S \cup {n} : \A k \in S \cup {n} : k <= m

\* truncationActive is true exactly when the threshold is positive and
\* maxObservedWidth exceeds it.
TruncationAsDerived(col) ==
    col.truncationRequired <=> (col.truncateAt > 0 /\ col.maxLength > col.truncateAt)

\* C11: in every state reached by AddRow calls, each column's
\* maxObservedWidth is the maximum codepoint length over its name and every
\* string value supplied for it in a completed AddRow (multiline elements
\* and rows that expanded to no physical row included), and truncationActive
\* is true exactly when truncationThreshold > 0 and maxObservedWidth exceeds
\* it. Stated call by call: before the first call the width is the name's; a
\* completed call raises it to the maximum with the values it supplied; a
\* call that does not complete contributes nothing.
C11_WidthIsMaxOverCompletedCalls ==
    [][ AddRowStep
            => /\ Len(Columns') = Len(Columns)
               /\ \A i \in 1..Len(Columns) :
                     /\ call.op = "NewTable"
                          => Columns[i].maxLength
                                = RuneCountInString(Columns[i].Name)
                     /\ Columns'[i].maxLength =
                          IF outcome' = "ok"
                          THEN MaxWith(Columns[i].maxLength,
                                       SuppliedLengths(call'.fields, i))
                          ELSE Columns[i].maxLength
                     /\ TruncationAsDerived(Columns[i])
                     /\ TruncationAsDerived(Columns'[i]) ]_vars

\* The same, for the calls that complete only.
C11_HoldsForCompletedCalls ==
    [][ (AddRowStep /\ outcome' = "ok")
            => /\ Len(Columns') = Len(Columns)
               /\ \A i \in 1..Len(Columns) :
                     /\ call.op = "NewTable"
                          => Columns[i].maxLength
                                = RuneCountInString(Columns[i].Name)
                     /\ Columns'[i].maxLength =
                          MaxWith(Columns[i].maxLength,
                                  SuppliedLengths(call'.fields, i))
                     /\ TruncationAsDerived(Columns[i])
                     /\ TruncationAsDerived(Columns'[i]) ]_vars

\* C12: after any sequence of AddRow calls Table.RowCount is the number of
\* physical rows in Table.Rows, and Table.ColumnCount the number of columns.
C12_CountersMatchStore ==
    /\ RowCount = Len(Rows)
    /\ ColumnCount = Len(Columns)

\* Table.ColumnCount is the number of columns.
C12_ColumnCountMatches == ColumnCount = Len(Columns)

====
